---- MODULE Spec2Model ----
(***************************************************************************)
(* Model of icedcube: the 2x2x2 cube engine (src/cube/mod.rs), the move    *)
(* parser and the angle helper (src/app/support.rs), the message handlers  *)
(* that reach them (src/app/update.rs), the sticker layout the renderer    *)
(* draws (src/render/face.rs), and the renderer's geometry, draw order and *)
(* canvas layout (src/render/geom.rs, canvas.rs, layout.rs).               *)
(*                                                                         *)
(* Strings are sequences of chunks.  Text typed by the user (tokens,       *)
(* algorithms, seeds) is a sequence of one-character chunks, so that       *)
(* trimming, splitting and matching work on characters; a literal of the   *)
(* program (a format string) is one chunk.                                 *)
(***************************************************************************)
EXTENDS Integers, Sequences, FiniteSets, TLC

VARIABLES
    cube,        \* App.cube.faces : [FaceId -> Face]
    alg_input,   \* App.alg_input
    seed_input,  \* App.seed_input
    status,      \* App.status
    msg,         \* the message update() handled last ("Init" before the first)
    moves,       \* handler runs that turned the cube since it was last solved
    start,       \* engine runs: the cube the run started from
    hist,        \* runs: the tokens apply_token was given, or the calls made, in order
    res,         \* engine runs: the Result of the last apply_token call
    call,        \* function calls: the function, its arguments, its result
    params,      \* App.params : size, left and right (rz, rx, ry), whole degrees
    snap90,      \* App.snap90
    link_opposite \* App.link_opposite

vars == <<cube, alg_input, seed_input, status, msg, moves, start, hist, res, call,
          params, snap90, link_opposite>>
camVars == <<params, snap90, link_opposite>>
appVars == <<alg_input, seed_input, status, msg, moves, camVars>>
runVars == <<start, hist, res, call>>

(***************************************************************************)
(* Bounds                                                                  *)
(***************************************************************************)
MaxMoves == 2     \* Spec: cube-turning handler runs per solved cube
MaxHist == 4      \* SpecCube: tokens per run
MaxTokLen == 2    \* SpecCube: characters of the first token of a run
MaxCalls == 3     \* SpecScramble: scramble_with_seed calls per run
MaxDraws == 2     \* random_scramble: draws of a call with any draws

(***************************************************************************)
(* src/cube/mod.rs: types                                                  *)
(***************************************************************************)
FaceId == <<"U", "D", "F", "B", "L", "R">>
Faces == {FaceId[i] : i \in 1..6}
Col == {"W", "Y", "G", "B", "O", "R"}
Idx == 0..1

\* a Rust array [x, y]
Arr2(x, y) == [i \in Idx |-> IF i = 0 THEN x ELSE y]

Face == [Idx -> [Idx -> Col]]
Pos == Faces \X Idx \X Idx

\* a faulty variant: the colours of F and B exchanged
CubeDefault_swapped ==
    [x \in Faces |-> [r \in Idx |-> [k \in Idx |->
        CASE x = "U" -> "W" [] x = "D" -> "Y" [] x = "F" -> "B"
          [] x = "B" -> "G" [] x = "L" -> "O" [] x = "R" -> "R"]]]

\* impl Default for Cube
CubeDefault ==
    LET u == Arr2(Arr2("W", "W"), Arr2("W", "W"))
        d == Arr2(Arr2("Y", "Y"), Arr2("Y", "Y"))
        f == Arr2(Arr2("G", "G"), Arr2("G", "G"))
        b == Arr2(Arr2("B", "B"), Arr2("B", "B"))
        l == Arr2(Arr2("O", "O"), Arr2("O", "O"))
        r == Arr2(Arr2("R", "R"), Arr2("R", "R"))
    IN  [x \in Faces |->
            CASE x = "U" -> u [] x = "D" -> d [] x = "F" -> f
              [] x = "B" -> b [] x = "L" -> l [] x = "R" -> r]

(***************************************************************************)
(* src/cube/mod.rs: helpers and the six clockwise quarter turns            *)
(***************************************************************************)
\* [[a,b],[c,d]] -> [[c,a],[d,b]]
rot_face_cw(f) ==
    LET a == f[0][0]
        b == f[0][1]
        c == f[1][0]
        d == f[1][1]
    IN  Arr2(Arr2(c, a), Arr2(d, b))

\* a faulty variant: the rows are copied one after the other, each read after
\* the write before it, with no snapshot
u_cw_nosnap(faces) ==
    LET g == [faces EXCEPT !["U"] = rot_face_cw(faces["U"])]
        g1 == [g EXCEPT !["R"][0] = g["F"][0]]
        g2 == [g1 EXCEPT !["B"][0] = g1["R"][0]]
        g3 == [g2 EXCEPT !["L"][0] = g2["B"][0]]
    IN  [g3 EXCEPT !["F"][0] = g3["L"][0]]

\* a faulty variant: the D face is turned along with the U layer
u_cw_deep(faces) ==
    LET g == [faces EXCEPT !["U"] = rot_face_cw(faces["U"]),
                           !["D"] = rot_face_cw(faces["D"])]
        f0 == g["F"][0]
        r0 == g["R"][0]
        b0 == g["B"][0]
        l0 == g["L"][0]
    IN  [g EXCEPT !["R"][0] = f0, !["B"][0] = r0,
                  !["L"][0] = b0, !["F"][0] = l0]

u_cw(faces) ==
    LET g == [faces EXCEPT !["U"] = rot_face_cw(faces["U"])]
        f0 == g["F"][0]
        r0 == g["R"][0]
        b0 == g["B"][0]
        l0 == g["L"][0]
    IN  [g EXCEPT !["R"][0] = f0, !["B"][0] = r0,
                  !["L"][0] = b0, !["F"][0] = l0]

\* a faulty variant: the F strip is snapshotted from row 0
d_cw_toprow(faces) ==
    LET g == [faces EXCEPT !["D"] = rot_face_cw(faces["D"])]
        f1 == g["F"][0]
        r1 == g["R"][1]
        b1 == g["B"][1]
        l1 == g["L"][1]
    IN  [g EXCEPT !["L"][1] = f1, !["B"][1] = l1,
                  !["R"][1] = b1, !["F"][1] = r1]

d_cw(faces) ==
    LET g == [faces EXCEPT !["D"] = rot_face_cw(faces["D"])]
        f1 == g["F"][1]
        r1 == g["R"][1]
        b1 == g["B"][1]
        l1 == g["L"][1]
    IN  [g EXCEPT !["L"][1] = f1, !["B"][1] = l1,
                  !["R"][1] = b1, !["F"][1] = r1]

\* a faulty variant: B left is written to U right without the reversal
r_cw_unreversed(faces) ==
    LET g == [faces EXCEPT !["R"] = rot_face_cw(faces["R"])]
        u_col == Arr2(g["U"][0][1], g["U"][1][1])
        f_col == Arr2(g["F"][0][1], g["F"][1][1])
        d_col == Arr2(g["D"][0][1], g["D"][1][1])
        b_col == Arr2(g["B"][0][0], g["B"][1][0])
    IN  [g EXCEPT !["F"][0][1] = u_col[0], !["F"][1][1] = u_col[1],
                  !["D"][0][1] = f_col[0], !["D"][1][1] = f_col[1],
                  !["B"][0][0] = d_col[1], !["B"][1][0] = d_col[0],
                  !["U"][0][1] = b_col[0], !["U"][1][1] = b_col[1]]

r_cw(faces) ==
    LET g == [faces EXCEPT !["R"] = rot_face_cw(faces["R"])]
        u_col == Arr2(g["U"][0][1], g["U"][1][1])
        f_col == Arr2(g["F"][0][1], g["F"][1][1])
        d_col == Arr2(g["D"][0][1], g["D"][1][1])
        b_col == Arr2(g["B"][0][0], g["B"][1][0])
    IN  [g EXCEPT !["F"][0][1] = u_col[0], !["F"][1][1] = u_col[1],
                  !["D"][0][1] = f_col[0], !["D"][1][1] = f_col[1],
                  !["B"][0][0] = d_col[1], !["B"][1][0] = d_col[0],
                  !["U"][0][1] = b_col[1], !["U"][1][1] = b_col[0]]

\* a faulty variant: U left is written to B right without the reversal
l_cw_unreversed(faces) ==
    LET g == [faces EXCEPT !["L"] = rot_face_cw(faces["L"])]
        u_col == Arr2(g["U"][0][0], g["U"][1][0])
        f_col == Arr2(g["F"][0][0], g["F"][1][0])
        d_col == Arr2(g["D"][0][0], g["D"][1][0])
        b_col == Arr2(g["B"][0][1], g["B"][1][1])
    IN  [g EXCEPT !["B"][0][1] = u_col[0], !["B"][1][1] = u_col[1],
                  !["D"][0][0] = b_col[1], !["D"][1][0] = b_col[0],
                  !["F"][0][0] = d_col[0], !["F"][1][0] = d_col[1],
                  !["U"][0][0] = f_col[0], !["U"][1][0] = f_col[1]]

l_cw(faces) ==
    LET g == [faces EXCEPT !["L"] = rot_face_cw(faces["L"])]
        u_col == Arr2(g["U"][0][0], g["U"][1][0])
        f_col == Arr2(g["F"][0][0], g["F"][1][0])
        d_col == Arr2(g["D"][0][0], g["D"][1][0])
        b_col == Arr2(g["B"][0][1], g["B"][1][1])
    IN  [g EXCEPT !["B"][0][1] = u_col[1], !["B"][1][1] = u_col[0],
                  !["D"][0][0] = b_col[1], !["D"][1][0] = b_col[0],
                  !["F"][0][0] = d_col[0], !["F"][1][0] = d_col[1],
                  !["U"][0][0] = f_col[0], !["U"][1][0] = f_col[1]]

f_cw(faces) ==
    LET g == [faces EXCEPT !["F"] = rot_face_cw(faces["F"])]
        u_bot == Arr2(g["U"][1][0], g["U"][1][1])
        r_lft == Arr2(g["R"][0][0], g["R"][1][0])
        d_top == Arr2(g["D"][0][0], g["D"][0][1])
        l_rgt == Arr2(g["L"][0][1], g["L"][1][1])
    IN  [g EXCEPT !["R"][0][0] = u_bot[1], !["R"][1][0] = u_bot[0],
                  !["D"][0][0] = r_lft[0], !["D"][0][1] = r_lft[1],
                  !["L"][0][1] = d_top[1], !["L"][1][1] = d_top[0],
                  !["U"][1][0] = l_rgt[0], !["U"][1][1] = l_rgt[1]]

b_cw(faces) ==
    LET g == [faces EXCEPT !["B"] = rot_face_cw(faces["B"])]
        u_top == Arr2(g["U"][0][0], g["U"][0][1])
        l_lft == Arr2(g["L"][0][0], g["L"][1][0])
        d_bot == Arr2(g["D"][1][0], g["D"][1][1])
        r_rgt == Arr2(g["R"][0][1], g["R"][1][1])
    IN  [g EXCEPT !["L"][0][0] = u_top[1], !["L"][1][0] = u_top[0],
                  !["D"][1][0] = l_lft[0], !["D"][1][1] = l_lft[1],
                  !["R"][0][1] = d_bot[1], !["R"][1][1] = d_bot[0],
                  !["U"][0][0] = r_rgt[0], !["U"][0][1] = r_rgt[1]]

\* x_ccw: three clockwise turns; x_180: two
u_ccw(faces) == u_cw(u_cw(u_cw(faces)))
u_180(faces) == u_cw(u_cw(faces))
d_ccw(faces) == d_cw(d_cw(d_cw(faces)))
d_180(faces) == d_cw(d_cw(faces))
\* a faulty variant: two clockwise turns instead of three
r_ccw_twice(faces) == r_cw(r_cw(faces))
r_ccw(faces) == r_cw(r_cw(r_cw(faces)))
r_180(faces) == r_cw(r_cw(faces))
l_ccw(faces) == l_cw(l_cw(l_cw(faces)))
l_180(faces) == l_cw(l_cw(faces))
f_ccw(faces) == f_cw(f_cw(f_cw(faces)))
\* a half turn that stops after one quarter turn
f_180_once(faces) == f_cw(faces)
f_180(faces) == f_cw(f_cw(faces))
b_ccw(faces) == b_cw(b_cw(b_cw(faces)))
b_180(faces) == b_cw(b_cw(faces))

\* the public moves
mv_u(faces) == u_cw(faces)
mv_u_prime(faces) == u_ccw(faces)
mv_u2(faces) == u_180(faces)
mv_d(faces) == d_cw(faces)
mv_d_prime(faces) == d_ccw(faces)
mv_d2(faces) == d_180(faces)
mv_r(faces) == r_cw(faces)
mv_r_prime(faces) == r_ccw(faces)
mv_r2(faces) == r_180(faces)
mv_l(faces) == l_cw(faces)
\* a faulty variant: L' wired to the clockwise turn
mv_l_prime_cw(faces) == l_cw(faces)
mv_l_prime(faces) == l_ccw(faces)
mv_l2(faces) == l_180(faces)
mv_f(faces) == f_cw(faces)
mv_f_prime(faces) == f_ccw(faces)
mv_f2(faces) == f_180(faces)
mv_b(faces) == b_cw(faces)
mv_b_prime(faces) == b_ccw(faces)
mv_b2(faces) == b_180(faces)

(***************************************************************************)
(* src/app/support.rs: apply_token, apply_alg                              *)
(***************************************************************************)
Ok(c) == [ok |-> TRUE, cube |-> c, err |-> <<>>]
Err(c, e) == [ok |-> FALSE, cube |-> c, err |-> e]

\* a faulty variant: the error arm hands back a new cube
unknown_move_reset(c, other) == Err(CubeDefault, <<"Unknown move: ">> \o other)

\* the default arm of apply_token's match; the cube is not touched
unknown_move(c, other) == Err(c, <<"Unknown move: ">> \o other)

\* the match of apply_token: the string patterns are compared whole
apply_token(c, tok) ==
    CASE tok = <<"U">>      -> Ok(mv_u(c))
      [] tok = <<"U", "'">> -> Ok(mv_u_prime(c))
      [] tok = <<"U", "2">> -> Ok(mv_u2(c))
      [] tok = <<"D">>      -> Ok(mv_d(c))
      [] tok = <<"D", "'">> -> Ok(mv_d_prime(c))
      [] tok = <<"D", "2">> -> Ok(mv_d2(c))
      [] tok = <<"R">>      -> Ok(mv_r(c))
      [] tok = <<"R", "'">> -> Ok(mv_r_prime(c))
      [] tok = <<"R", "2">> -> Ok(mv_r2(c))
      [] tok = <<"L">>      -> Ok(mv_l(c))
      [] tok = <<"L", "'">> -> Ok(mv_l_prime(c))
      [] tok = <<"L", "2">> -> Ok(mv_l2(c))
      [] tok = <<"F">>      -> Ok(mv_f(c))
      [] tok = <<"F", "'">> -> Ok(mv_f_prime(c))
      [] tok = <<"F", "2">> -> Ok(mv_f2(c))
      [] tok = <<"B">>      -> Ok(mv_b(c))
      [] tok = <<"B", "'">> -> Ok(mv_b_prime(c))
      [] tok = <<"B", "2">> -> Ok(mv_b2(c))
      [] OTHER              -> unknown_move(c, tok)

\* a faulty variant: an unknown token is reported but the loop goes on
RECURSIVE apply_tokens_skip(_, _)
apply_tokens_skip(c, toks) ==
    IF toks = <<>> THEN Ok(c)
    ELSE LET r == apply_token(c, Head(toks))
             rest == apply_tokens_skip(r.cube, Tail(toks))
         IN  IF r.ok THEN rest
             ELSE Err(rest.cube, r.err)

\* the tokens applied from the last to the first
RECURSIVE apply_tokens_rtl(_, _)
apply_tokens_rtl(c, toks) ==
    IF toks = <<>> THEN Ok(c)
    ELSE LET r == apply_token(c, toks[Len(toks)])
         IN  IF r.ok THEN apply_tokens_rtl(r.cube, SubSeq(toks, 1, Len(toks) - 1)) ELSE r

RECURSIVE apply_tokens(_, _)

\* the `?` after apply_token: an Err is returned at once, with the cube as
\* mutated so far; after an Ok the loop goes on with the tokens left
question_mark(r, toks) ==
    IF r.ok THEN apply_tokens(r.cube, toks) ELSE r

\* for tok in alg.split_whitespace() { apply_token(cube, tok)?; } Ok(())
apply_tokens(c, toks) ==
    IF toks = <<>> THEN Ok(c)
    ELSE question_mark(apply_token(c, Head(toks)), Tail(toks))

\* char::is_whitespace, for the characters the inputs use
is_whitespace(ch) == ch \in {" ", "\t"}

\* str::split_whitespace: the maximal runs of non-whitespace characters
RECURSIVE split_from(_, _, _)
split_from(s, i, cur) ==
    IF i > Len(s) THEN (IF cur = <<>> THEN <<>> ELSE <<cur>>)
    ELSE IF is_whitespace(s[i])
         THEN (IF cur = <<>> THEN <<>> ELSE <<cur>>) \o split_from(s, i + 1, <<>>)
         ELSE split_from(s, i + 1, Append(cur, s[i]))

split_whitespace(s) == split_from(s, 1, <<>>)

\* str::trim
RECURSIVE trim_start(_)
trim_start(s) ==
    IF s # <<>> /\ is_whitespace(Head(s)) THEN trim_start(Tail(s)) ELSE s

RECURSIVE trim_end(_)
trim_end(s) ==
    IF s # <<>> /\ is_whitespace(s[Len(s)])
    THEN trim_end(SubSeq(s, 1, Len(s) - 1)) ELSE s

trim(s) == trim_end(trim_start(s))

apply_alg(c, alg) == apply_tokens(c, split_whitespace(alg))

(***************************************************************************)
(* src/logic/scramble.rs                                                   *)
(***************************************************************************)
\* a faulty table: U3 where U2 belongs
MOVES_U3 == << <<"U">>, <<"U", "'">>, <<"U", "3">>,
               <<"D">>, <<"D", "'">>, <<"D", "2">>,
               <<"R">>, <<"R", "'">>, <<"R", "2">>,
               <<"L">>, <<"L", "'">>, <<"L", "2">>,
               <<"F">>, <<"F", "'">>, <<"F", "2">>,
               <<"B">>, <<"B", "'">>, <<"B", "2">> >>

MOVES == << <<"U">>, <<"U", "'">>, <<"U", "2">>,
            <<"D">>, <<"D", "'">>, <<"D", "2">>,
            <<"R">>, <<"R", "'">>, <<"R", "2">>,
            <<"L">>, <<"L", "'">>, <<"L", "2">>,
            <<"F">>, <<"F", "'">>, <<"F", "2">>,
            <<"B">>, <<"B", "'">>, <<"B", "2">> >>

\* StdRng::seed_from_u64(seed) followed by the i-th MOVES.choose(&mut rng):
\* the generator is the rand crate's, outside this repository.  All the
\* program relies on is that the i-th draw is a function of (seed, i) with a
\* value in 0..17; this fixed function stands for it.
StdRngChoose(seed, i) == (seed * 7 + i * i * 3 + i * 11 + 5) % 18

\* [..].join(" ")
RECURSIVE join(_)
join(toks) ==
    IF toks = <<>> THEN <<>>
    ELSE IF Len(toks) = 1 THEN toks[1]
    ELSE toks[1] \o <<" ">> \o join(Tail(toks))

\* random_scramble(len): thread_rng() may make any draws, so the results are
\* the strings of every sequence of len draws
random_scramble(len) ==
    {join([i \in 1..len |-> MOVES[draws[i] + 1]]) : draws \in [1..len -> 0..17]}

\* a scramble whose generator is shared with the calls made before
scramble_shared_rng(len, seed) ==
    join([i \in 1..len |-> MOVES[StdRngChoose(seed + Len(hist), i - 1) + 1]])

scramble_with_seed(len, seed) ==
    join([i \in 1..len |-> MOVES[StdRngChoose(seed, i - 1) + 1]])

(***************************************************************************)
(* src/app/update.rs                                                       *)
(***************************************************************************)
SCRAMBLE_LEN == 15

Digits == <<"0", "1", "2", "3", "4", "5", "6", "7", "8", "9">>
DigitVal(ch) == CHOOSE d \in 0..9 : Digits[d + 1] = ch
IsDigit(ch) == \E d \in 0..9 : Digits[d + 1] = ch

RECURSIVE digits_value(_, _)
digits_value(s, acc) ==
    IF s = <<>> THEN acc ELSE digits_value(Tail(s), acc * 10 + DigitVal(Head(s)))

\* str::parse::<u64>: an optional '+', then one or more decimal digits.
\* (The inputs are short, so the value never exceeds u64::MAX.)
parse_u64(s) ==
    LET body == IF s # <<>> /\ Head(s) = "+" THEN Tail(s) ELSE s
    IN  IF body # <<>> /\ \A i \in 1..Len(body) : IsDigit(body[i])
        THEN [ok |-> TRUE, val |-> digits_value(body, 0)]
        ELSE [ok |-> FALSE, val |-> 0]

\* the fields of App the handlers below read and write
ViewUI(rz, rx, ry) == [rz |-> rz, rx |-> rx, ry |-> ry]

ParamsDefault ==
    [size |-> 22, left |-> ViewUI(0, 0, 0), right |-> ViewUI(90, 180, 0)]

App == [cube |-> cube, alg_input |-> alg_input,
        seed_input |-> seed_input, status |-> status,
        params |-> params, snap90 |-> snap90, link_opposite |-> link_opposite]

\* the match on apply_alg's result in try_apply_alg; the cube was turned in
\* place, so it is the result's cube in both arms
alg_result(app, r) ==
    IF r.ok
    THEN [app EXCEPT !.cube = r.cube, !.status = <<"Applied algorithm.">>]
    ELSE [app EXCEPT !.cube = r.cube,
                     !.status = <<"Algorithm error: ">> \o r.err]

try_apply_alg(app, alg) ==
    IF trim(alg) = <<>>
    THEN [app EXCEPT !.status = <<"Nothing to apply. Enter an algorithm or a seed.">>]
    ELSE alg_result(app, apply_alg(app.cube, alg))

\* a seeded scramble that also puts the cameras back
\* a seeded scramble that turns the cube it finds
apply_seeded_scramble_kept(app, seed) ==
    LET seq == scramble_with_seed(SCRAMBLE_LEN, seed)
        r == apply_alg(app.cube, seq)
    IN  [app EXCEPT !.cube = r.cube, !.alg_input = seq,
                    !.status = <<"Applied seed = ", ToString(seed), ": ">> \o seq]

apply_seeded_scramble_cams(app, seed) ==
    LET seq == scramble_with_seed(SCRAMBLE_LEN, seed)
        r == apply_alg(CubeDefault, seq)
    IN  [app EXCEPT !.cube = r.cube, !.alg_input = seq, !.params = ParamsDefault,
                    !.status = <<"Applied seed = ", ToString(seed), ": ">> \o seq]

\* the match on apply_alg's result in apply_seeded_scramble
seed_result(app, seed, seq, r) ==
    IF r.ok
    THEN [app EXCEPT !.cube = r.cube, !.alg_input = seq,
                     !.status = <<"Applied seed = ", ToString(seed), ": ">> \o seq]
    ELSE [app EXCEPT !.cube = r.cube,
                     !.status = <<"Seeded scramble error: ">> \o r.err]

\* app.cube = Cube::default() comes before apply_alg
apply_seeded_scramble(app, seed) ==
    LET seq == scramble_with_seed(SCRAMBLE_LEN, seed)
    IN  seed_result(app, seed, seq, apply_alg(CubeDefault, seq))

\* update(): the state after the handler, and the message it handled
Handled(app, m) ==
    /\ cube' = app.cube
    /\ alg_input' = app.alg_input
    /\ seed_input' = app.seed_input
    /\ status' = app.status
    /\ params' = app.params
    /\ snap90' = app.snap90
    /\ link_opposite' = app.link_opposite
    /\ msg' = m
    /\ UNCHANGED runVars

\* what the text fields and Msg::Move can carry
AlgInputs ==
    { <<>>,
      <<" ", " ">>,
      <<"R", " ", "X", " ", "U">>,
      <<" ", "F", "2", " ", " ", "B", "'", " ">>,
      <<"u", " ", "R", "2">> }
SeedInputs == { <<>>, <<" ", "7", " ">>, <<"x">> }
Tokens == {MOVES[i] : i \in 1..18}
BadTokens == { <<"X">>, <<"u">>, <<"U", "3">>, <<>> }
\* the tokens of the two rows of move buttons
MoveButtons ==
    { <<"U">>, <<"U", "'">>, <<"U", "2">>, <<"R">>, <<"R", "'">>, <<"R", "2">>,
      <<"F">>, <<"F", "'">>, <<"F", "2">> }
    \cup
    { <<"D">>, <<"D", "'">>, <<"D", "2">>, <<"L">>, <<"L", "'">>, <<"L", "2">>,
      <<"B">>, <<"B", "'">>, <<"B", "2">> }
\* what Msg::Move can carry: a button's token, or any other string
MoveInputs == MoveButtons \cup BadTokens

MsgOf(type, arg) == [type |-> type, arg |-> arg]

\* the camera fields of App::default()
CamDefault ==
    /\ params = ParamsDefault
    /\ snap90 = FALSE
    /\ link_opposite = FALSE

\* a function call: not yet made (done = FALSE) or returned with ret
Call(fn, arg) == [fn |-> fn, arg |-> arg, done |-> FALSE, ret |-> <<>>]
NoCall == Call("none", <<>>)

AlgChanged(s) ==
    /\ Handled([App EXCEPT !.alg_input = s], MsgOf("AlgChanged", s))
    /\ UNCHANGED moves

SeedChanged(s) ==
    /\ Handled([App EXCEPT !.seed_input = s], MsgOf("SeedChanged", s))
    /\ UNCHANGED moves

\* a handler that looks at the seed before the algorithm
ApplyAlg_seed_first ==
    /\ moves < MaxMoves
    /\ LET alg_text == trim(alg_input)
           seed == parse_u64(trim(seed_input))
       IN  Handled(IF seed.ok THEN apply_seeded_scramble(App, seed.val)
                   ELSE IF alg_text # <<>> THEN try_apply_alg(App, alg_text)
                   ELSE [App EXCEPT !.status =
                            <<"Nothing to apply. Enter an algorithm or a seed.">>],
                   MsgOf("ApplyAlg", <<>>))
    /\ moves' = moves + 1

ApplyAlg ==
    /\ moves < MaxMoves
    /\ LET alg_text == trim(alg_input)
           seed == parse_u64(trim(seed_input))
       IN  Handled(IF alg_text # <<>> THEN try_apply_alg(App, alg_text)
                   ELSE IF seed.ok THEN apply_seeded_scramble(App, seed.val)
                   ELSE [App EXCEPT !.status =
                            <<"Nothing to apply. Enter an algorithm or a seed.">>],
                   MsgOf("ApplyAlg", <<>>))
    /\ moves' = moves + 1

ResetCube ==
    /\ Handled([App EXCEPT !.cube = CubeDefault, !.status = <<"Cube reset.">>],
               MsgOf("ResetCube", <<>>))
    /\ moves' = 0

Move(tok) ==
    /\ moves < MaxMoves
    /\ LET r == apply_token(cube, tok)
       IN  Handled(IF r.ok
                   THEN [App EXCEPT !.cube = r.cube, !.status = <<"Did ">> \o tok]
                   ELSE [App EXCEPT !.cube = r.cube, !.status = r.err],
                   MsgOf("Move", tok))
    /\ moves' = moves + 1

Init ==
    /\ cube = CubeDefault
    /\ alg_input = <<>>
    /\ seed_input = <<>>
    /\ status = <<>>
    /\ msg = MsgOf("Init", <<>>)
    /\ moves = 0
    /\ CamDefault
    /\ start = CubeDefault
    /\ hist = <<>>
    /\ res = Ok(CubeDefault)
    /\ call = NoCall

Next ==
    \/ \E s \in AlgInputs : AlgChanged(s)
    \/ \E s \in SeedInputs : SeedChanged(s)
    \/ ApplyAlg
    \/ ResetCube
    \/ \E tok \in MoveInputs : Move(tok)

Spec == Init /\ [][Next]_vars

(***************************************************************************)
(* Engine runs: apply_token called directly on a cube with any stickers.   *)
(* A run starts from a test cube, tries one token (any short string) and,  *)
(* if it was accepted, goes on with tokens of the same face.               *)
(***************************************************************************)
Chars == {"U", "D", "R", "L", "F", "B", "'", "2", " ", "u", "X"}
TokStrings == UNION {[1..n -> Chars] : n \in 0..MaxTokLen}

At(c, p) == c[p[1]][p[2]][p[3]]

\* one sticker of colour Y at p on a cube of colour W
OneHot(p) ==
    [x \in Faces |-> [r \in Idx |-> [k \in Idx |->
        IF <<x, r, k>> = p THEN "Y" ELSE "W"]]]

\* the four strips a quarter turn of X snapshots, each in the order of its
\* snapshot ([0] first), in the order the code takes them
Strips(X) ==
    CASE X = "U" -> << << <<"F", 0, 0>>, <<"F", 0, 1>> >>, << <<"R", 0, 0>>, <<"R", 0, 1>> >>,
                       << <<"B", 0, 0>>, <<"B", 0, 1>> >>, << <<"L", 0, 0>>, <<"L", 0, 1>> >> >>
      [] X = "D" -> << << <<"F", 1, 0>>, <<"F", 1, 1>> >>, << <<"R", 1, 0>>, <<"R", 1, 1>> >>,
                       << <<"B", 1, 0>>, <<"B", 1, 1>> >>, << <<"L", 1, 0>>, <<"L", 1, 1>> >> >>
      [] X = "R" -> << << <<"U", 0, 1>>, <<"U", 1, 1>> >>, << <<"F", 0, 1>>, <<"F", 1, 1>> >>,
                       << <<"D", 0, 1>>, <<"D", 1, 1>> >>, << <<"B", 0, 0>>, <<"B", 1, 0>> >> >>
      [] X = "L" -> << << <<"U", 0, 0>>, <<"U", 1, 0>> >>, << <<"F", 0, 0>>, <<"F", 1, 0>> >>,
                       << <<"D", 0, 0>>, <<"D", 1, 0>> >>, << <<"B", 0, 1>>, <<"B", 1, 1>> >> >>
      [] X = "F" -> << << <<"U", 1, 0>>, <<"U", 1, 1>> >>, << <<"R", 0, 0>>, <<"R", 1, 0>> >>,
                       << <<"D", 0, 0>>, <<"D", 0, 1>> >>, << <<"L", 0, 1>>, <<"L", 1, 1>> >> >>
      [] X = "B" -> << << <<"U", 0, 0>>, <<"U", 0, 1>> >>, << <<"L", 0, 0>>, <<"L", 1, 0>> >>,
                       << <<"D", 1, 0>>, <<"D", 1, 1>> >>, << <<"R", 0, 1>>, <<"R", 1, 1>> >> >>

\* every strip of X reads (Y, G) in snapshot order; all other stickers are W
StripMarked(X) ==
    [x \in Faces |-> [r \in Idx |-> [k \in Idx |->
        IF \E j \in 1..4 : Strips(X)[j][1] = <<x, r, k>> THEN "Y"
        ELSE IF \E j \in 1..4 : Strips(X)[j][2] = <<x, r, k>> THEN "G"
        ELSE "W"]]]

TestCubes ==
    {CubeDefault} \cup {OneHot(p) : p \in Pos} \cup {StripMarked(X) : X \in Faces}

Turn(tok) ==
    /\ Len(hist) < MaxHist
    /\ IF hist = <<>> THEN tok \in TokStrings
       ELSE res.ok /\ tok \in Tokens /\ tok[1] = hist[1][1]
    /\ LET r == apply_token(cube, tok)
       IN  /\ res' = r
           /\ cube' = r.cube
    /\ hist' = Append(hist, tok)
    /\ UNCHANGED <<start, call, appVars>>

InitCube ==
    /\ cube \in TestCubes
    /\ start = cube
    /\ hist = <<>>
    /\ res = Ok(cube)
    /\ call = NoCall
    /\ alg_input = <<>>
    /\ seed_input = <<>>
    /\ status = <<>>
    /\ msg = MsgOf("Init", <<>>)
    /\ moves = 0
    /\ CamDefault

NextCube == \E tok \in TokStrings : Turn(tok)

SpecCube == InitCube /\ [][NextCube]_vars

(***************************************************************************)
(* Algorithm runs: apply_alg called directly on a test cube with an        *)
(* algorithm of two valid tokens.                                          *)
(***************************************************************************)
AppIdle ==
    /\ alg_input = <<>>
    /\ seed_input = <<>>
    /\ status = <<>>
    /\ msg = MsgOf("Init", <<>>)
    /\ moves = 0
    /\ CamDefault

RunAlg ==
    /\ call.fn = "apply_alg"
    /\ ~call.done
    /\ LET r == apply_alg(cube, call.arg)
       IN  /\ res' = r
           /\ cube' = r.cube
           /\ call' = [call EXCEPT !.done = TRUE, !.ret = r.ok]
    /\ hist' = split_whitespace(call.arg)
    /\ UNCHANGED <<start, appVars>>

InitAlg ==
    /\ cube \in TestCubes
    /\ start = cube
    /\ hist = <<>>
    /\ res = Ok(cube)
    /\ \E a \in Tokens, b \in Tokens : call = Call("apply_alg", join(<<a, b>>))
    /\ AppIdle

NextAlg == RunAlg

SpecAlg == InitAlg /\ [][NextAlg]_vars

(***************************************************************************)
(* src/render/face.rs: the sticker layout the renderer draws               *)
(***************************************************************************)
\* the four corners of cell (r, c) of a face, in cube coordinates 0..2
cell_quad_raw(face, r, c) ==
    CASE face = "U" -> << <<c, r, 2>>, <<c + 1, r, 2>>,
                          <<c + 1, r + 1, 2>>, <<c, r + 1, 2>> >>
      [] face = "D" -> << <<c, 2 - r, 0>>, <<c + 1, 2 - r, 0>>,
                          <<c + 1, 2 - (r + 1), 0>>, <<c, 2 - (r + 1), 0>> >>
      [] face = "F" -> LET z0 == 2 - r
                           z1 == 2 - (r + 1)
                       IN  << <<c, 0, z0>>, <<c + 1, 0, z0>>,
                              <<c + 1, 0, z1>>, <<c, 0, z1>> >>
      [] face = "B" -> LET z0 == 2 - r
                           z1 == 2 - (r + 1)
                       IN  << <<2 - c, 2, z0>>, <<2 - (c + 1), 2, z0>>,
                              <<2 - (c + 1), 2, z1>>, <<2 - c, 2, z1>> >>
      [] face = "L" -> LET z0 == 2 - r
                           z1 == 2 - (r + 1)
                       IN  << <<0, 2 - c, z0>>, <<0, 2 - (c + 1), z0>>,
                              <<0, 2 - (c + 1), z1>>, <<0, 2 - c, z1>> >>
      [] face = "R" -> LET z0 == 2 - r
                           z1 == 2 - (r + 1)
                       IN  << <<2, c, z0>>, <<2, c + 1, z0>>,
                              <<2, c + 1, z1>>, <<2, c, z1>> >>

\* the corner set of the cell at position p
Cell(p) == {cell_quad_raw(p[1], p[2], p[3])[i] : i \in 1..4}

\* the plane the renderer draws face X in: the axis (1..3) on which every
\* corner of its four cells has the same coordinate, and that coordinate
FaceCorners(X) == UNION {Cell(<<X, r, c>>) : r \in Idx, c \in Idx}
FaceAxis(X) == CHOOSE a \in 1..3 : \A v \in FaceCorners(X), w \in FaceCorners(X) : v[a] = w[a]
FaceLevel(X) == (CHOOSE v \in FaceCorners(X) : TRUE)[FaceAxis(X)]

\* the outward normal of face X (the cube's centre is (1,1,1))
Normal(X) == [a \in 1..3 |-> IF a = FaceAxis(X) THEN FaceLevel(X) - 1 ELSE 0]

\* a cell of another face touches X when an edge of it lies in X's plane
Touches(p, X) ==
    /\ p[1] # X
    /\ Cardinality({v \in Cell(p) : v[FaceAxis(X)] = FaceLevel(X)}) = 2

InLayer(p, X) == p[1] = X \/ Touches(p, X)

\* a point turned 90 degrees about the axis of X through the centre, clockwise
\* for a viewer outside the cube looking at X: v -> (n.v) n - n x v.  (The
\* coordinates are right-handed and project() draws a face the viewer sees
\* unmirrored, so this is clockwise on the screen as well.)
Cross(a, b) == << a[2] * b[3] - a[3] * b[2],
                  a[3] * b[1] - a[1] * b[3],
                  a[1] * b[2] - a[2] * b[1] >>
Dot(a, b) == a[1] * b[1] + a[2] * b[2] + a[3] * b[3]
TurnPoint(X, pt) ==
    LET n == Normal(X)
        v == <<pt[1] - 1, pt[2] - 1, pt[3] - 1>>
        k == Dot(n, v)
        x == Cross(n, v)
    IN  <<1 + k * n[1] - x[1], 1 + k * n[2] - x[2], 1 + k * n[3] - x[3]>>

\* the position whose cell is the cell of p turned clockwise about X
TurnCell(X, p) == CHOOSE q \in Pos : Cell(q) = {TurnPoint(X, v) : v \in Cell(p)}

(***************************************************************************)
(* src/app/support.rs: set_deg.  Angles are whole degrees (integers); on   *)
(* whole degrees of this size the f32 operations of set_deg are exact.     *)
(***************************************************************************)
MaxAngle == 1080   \* SpecDeg: |v| of the angles set_deg is called with

Abs(x) == IF x < 0 THEN -x ELSE x

\* f32 `%`: the remainder has the sign of the dividend
frem(a, b) == IF a >= 0 THEN a % b ELSE -((-a) % b)

\* f32::round: to the nearest integer, halves away from zero; x = num / den
round_div(num, den) ==
    IF num >= 0 THEN (2 * num + den) \div (2 * den)
    ELSE -((2 * (-num) + den) \div (2 * den))

\* snap is the parameter snap90
set_deg(v, snap) ==
    LET r == round_div(v, 90) * 90
        d == IF snap
             THEN (IF r < 0 THEN r + 360 ELSE frem(r, 360))
             ELSE frem(v, 360)
    IN  IF d < 0 THEN d + 360 ELSE d

RunSetDeg ==
    /\ call.fn = "set_deg"
    /\ ~call.done
    /\ call' = [call EXCEPT !.done = TRUE,
                            !.ret = set_deg(call.arg.v, call.arg.snap90)]
    /\ UNCHANGED <<cube, start, hist, res, appVars>>

InitDeg ==
    /\ \E v \in (-MaxAngle)..MaxAngle, snap \in BOOLEAN :
          call = Call("set_deg", [v |-> v, snap90 |-> snap])
    /\ cube = CubeDefault
    /\ start = CubeDefault
    /\ hist = <<>>
    /\ res = Ok(CubeDefault)
    /\ AppIdle

NextDeg == RunSetDeg

SpecDeg == InitDeg /\ [][NextDeg]_vars

(***************************************************************************)
(* src/render/geom.rs.  Points are integer triples; angles are whole       *)
(* multiples of 90 degrees, whose sine and cosine are taken as the exact   *)
(* 0, 1, -1 (the f32 values differ from them by less than 1e-7, which      *)
(* changes no sign of a projected area).  Projected lengths are in         *)
(* thousandths of a pixel, sizes in whole pixels per cube unit (the size   *)
(* slider steps by 1.0); 0.8660254 is taken as 0.866.                      *)
(***************************************************************************)
QuarterAngles == {0, 90, 180, 270}

cos_deg(deg) ==
    CASE deg % 360 = 0 -> 1 [] deg % 360 = 90 -> 0
      [] deg % 360 = 180 -> -1 [] deg % 360 = 270 -> 0
sin_deg(deg) ==
    CASE deg % 360 = 0 -> 0 [] deg % 360 = 90 -> 1
      [] deg % 360 = 180 -> 0 [] deg % 360 = 270 -> -1

\* a plan view: x and y as they are, z dropped
project_plan(x, y, z, size, origin) ==
    << origin[1] + size * (x * 1000), origin[2] + size * (y * 1000) >>

project(x, y, z, size, origin) ==
    << origin[1] + size * (x * 866 + y * (-866) + z * 0),
       origin[2] + size * (x * (-500) + y * (-500) + z * (-1000)) >>

CEN == <<1, 1, 1>>

rot_z_point(p, deg) ==
    LET x0 == p[1] - CEN[1]  y0 == p[2] - CEN[2]  z0 == p[3] - CEN[3]
        c == cos_deg(deg)  s == sin_deg(deg)
    IN  <<c * x0 - s * y0 + CEN[1], s * x0 + c * y0 + CEN[2], z0 + CEN[3]>>

rot_y_point(p, deg) ==
    LET x0 == p[1] - CEN[1]  y0 == p[2] - CEN[2]  z0 == p[3] - CEN[3]
        c == cos_deg(deg)  s == sin_deg(deg)
    IN  <<c * x0 + s * z0 + CEN[1], y0 + CEN[2], (-s) * x0 + c * z0 + CEN[3]>>

\* a rotation about X that leaves the point where it is
rot_x_point_none(p, deg) == p

rot_x_point(p, deg) ==
    LET x0 == p[1] - CEN[1]  y0 == p[2] - CEN[2]  z0 == p[3] - CEN[3]
        c == cos_deg(deg)  s == sin_deg(deg)
    IN  <<x0 + CEN[1], c * y0 - s * z0 + CEN[2], s * y0 + c * z0 + CEN[3]>>

\* the three rotations in the order X, Y, Z
rotate_pt_all_xyz(p, rz, ry, rx) ==
    rot_z_point(rot_y_point(rot_x_point(p, rx), ry), rz)

rotate_pt_all(p, rz, ry, rx) ==
    rot_x_point(rot_y_point(rot_z_point(p, rz), ry), rx)

face_outer(face) ==
    CASE face = "U" -> << <<0, 0, 2>>, <<2, 0, 2>>, <<2, 2, 2>>, <<0, 2, 2>> >>
      [] face = "D" -> << <<0, 2, 0>>, <<2, 2, 0>>, <<2, 0, 0>>, <<0, 0, 0>> >>
      [] face = "F" -> << <<0, 0, 0>>, <<2, 0, 0>>, <<2, 0, 2>>, <<0, 0, 2>> >>
      [] face = "B" -> << <<2, 2, 0>>, <<0, 2, 0>>, <<0, 2, 2>>, <<2, 2, 2>> >>
      [] face = "L" -> << <<0, 0, 2>>, <<0, 2, 2>>, <<0, 2, 0>>, <<0, 0, 0>> >>
      [] face = "R" -> << <<2, 0, 0>>, <<2, 2, 0>>, <<2, 2, 2>>, <<2, 0, 2>> >>

\* note the parameter order (rz, rx, ry) and the call rotate_pt_all(p, rz, ry, rx)
face_visible(face, rz, rx, ry) ==
    LET q3 == [i \in 1..4 |-> rotate_pt_all(face_outer(face)[i], rz, ry, rx)]
        pts == [i \in 1..4 |-> project(q3[i][1], q3[i][2], q3[i][3], 1, <<0, 0>>)]
        term(i) == LET j == (i % 4) + 1
                   IN  pts[i][1] * pts[j][2] - pts[j][1] * pts[i][2]
        a == term(1) + term(2) + term(3) + term(4)
    IN  a < 0

face_depth(face, rz, rx, ry) ==
    LET c0 == CASE face = "U" -> <<1, 1, 2>> [] face = "D" -> <<1, 1, 0>>
                [] face = "F" -> <<1, 0, 1>> [] face = "B" -> <<1, 2, 1>>
                [] face = "L" -> <<0, 1, 1>> [] face = "R" -> <<2, 1, 1>>
        c == rotate_pt_all(c0, rz, ry, rx)
        py == project(c[1], c[2], c[3], 1, <<0, 0>>)[2]
    IN  -py

cube_corners ==
    << <<0, 0, 0>>, <<2, 0, 0>>, <<0, 2, 0>>, <<2, 2, 0>>,
       <<0, 0, 2>>, <<2, 0, 2>>, <<0, 2, 2>>, <<2, 2, 2>> >>

(***************************************************************************)
(* src/render/canvas.rs: the render closure of CubeCanvas::draw            *)
(***************************************************************************)
\* slice::sort_by is a stable sort: an element goes after the elements
\* before it whose key is not greater
RECURSIVE sort_by(_, _)
sort_by(s, key) ==
    IF s = <<>> THEN <<>>
    ELSE LET rest == sort_by(SubSeq(s, 1, Len(s) - 1), key)
             x == s[Len(s)]
             n == Cardinality({i \in 1..Len(rest) : key[rest[i]] <= key[x]})
         IN  SubSeq(rest, 1, n) \o <<x>> \o SubSeq(rest, n + 1, Len(rest))

\* the faces listed in the order of the enum FaceId
faces_by_id == <<"U", "D", "F", "B", "L", "R">>

\* the array the closure sorts
faces_array == <<"U", "R", "F", "D", "L", "B">>

\* the faces in the order draw_face is called for them, and of these the
\* ones draw_face does not return early for
render(rz, rx, ry) ==
    LET faces == sort_by(faces_array, [f \in Faces |-> face_depth(f, rz, rx, ry)])
    IN  [order |-> faces,
         drawn |-> SelectSeq(faces, LAMBDA f : face_visible(f, rz, rx, ry))]

RunFaceVisible ==
    /\ call.fn = "face_visible"
    /\ ~call.done
    /\ call' = [call EXCEPT !.done = TRUE,
                  !.ret = face_visible(call.arg.face, call.arg.rz, call.arg.rx, call.arg.ry)]
    /\ UNCHANGED <<cube, start, hist, res, appVars>>

RunRender ==
    /\ call.fn = "render"
    /\ ~call.done
    /\ call' = [call EXCEPT !.done = TRUE,
                  !.ret = render(call.arg.rz, call.arg.rx, call.arg.ry)]
    /\ UNCHANGED <<cube, start, hist, res, appVars>>

RunRotate ==
    /\ call.fn = "rotate_pt_all"
    /\ ~call.done
    /\ call' = [call EXCEPT !.done = TRUE,
                  !.ret = rotate_pt_all(call.arg.p, call.arg.rz, call.arg.ry, call.arg.rx)]
    /\ UNCHANGED <<cube, start, hist, res, appVars>>

\* the points the renderer rotates: cube corners, face centres, the centre
RotatedPoints == {p \in (0..2) \X (0..2) \X (0..2) :
                    \A a \in 1..3, b \in 1..3 : p[a] = 1 \/ p[b] = 1 \/ a = b}
                 \cup {cube_corners[i] : i \in 1..8}

InitView ==
    /\ \E rz \in QuarterAngles, rx \in QuarterAngles, ry \in QuarterAngles :
          \/ \E face \in Faces :
                call = Call("face_visible", [face |-> face, rz |-> rz, rx |-> rx, ry |-> ry])
          \/ call = Call("render", [rz |-> rz, rx |-> rx, ry |-> ry])
          \/ \E p \in RotatedPoints :
                call = Call("rotate_pt_all", [p |-> p, rz |-> rz, ry |-> ry, rx |-> rx])
    /\ cube = CubeDefault
    /\ start = CubeDefault
    /\ hist = <<>>
    /\ res = Ok(CubeDefault)
    /\ AppIdle

NextView == RunFaceVisible \/ RunRender \/ RunRotate

SpecView == InitView /\ [][NextView]_vars

(***************************************************************************)
(* src/render/layout.rs.  A Rectangle and an origin are in thousandths of  *)
(* a pixel; the inputs are chosen so that every product with 0.5, 0.48,    *)
(* 0.30, 0.60 and 2.6 is a whole number of thousandths.  f32::clamp        *)
(* panics when its min is greater than its max.                            *)
(***************************************************************************)
Px(n) == n * 1000

Rectangle(x, y, width, height) == [x |-> x, y |-> y, width |-> width, height |-> height]
ViewParams(rz, rx, ry, origin, size) ==
    [rz |-> rz, rx |-> rx, ry |-> ry, origin |-> origin, size |-> size]

Min2(a, b) == IF a <= b THEN a ELSE b
Max2(a, b) == IF a >= b THEN a ELSE b

\* a clamp that returns its argument
clamp_none(x, min, max) == [ok |-> TRUE, val |-> x]

\* f32::clamp: ok = FALSE is the panic of `assert!(min <= max)`
clamp(x, min, max) ==
    IF min > max THEN [ok |-> FALSE, val |-> x]
    ELSE [ok |-> TRUE, val |-> IF x < min THEN min ELSE IF x > max THEN max ELSE x]

\* the projected y of the eight cube corners of a view
projected_ys(vp) ==
    [i \in 1..8 |->
        LET q == rotate_pt_all(cube_corners[i], vp.rz, vp.ry, vp.rx)
        IN  project(q[1], q[2], q[3], vp.size, vp.origin)[2]]

\* fold(f32::INFINITY, f32::min) and fold(f32::NEG_INFINITY, f32::max)
min_projected_y(vp) ==
    LET ys == projected_ys(vp)
    IN  Min2(Min2(Min2(ys[1], ys[2]), Min2(ys[3], ys[4])),
             Min2(Min2(ys[5], ys[6]), Min2(ys[7], ys[8])))
max_projected_y(vp) ==
    LET ys == projected_ys(vp)
    IN  Max2(Max2(Max2(ys[1], ys[2]), Max2(ys[3], ys[4])),
             Max2(Max2(ys[5], ys[6]), Max2(ys[7], ys[8])))

\* ok = FALSE: the call panicked and returned nothing
layout_origins(bounds, size) ==
    LET mid_x == bounds.x + bounds.width \div 2
        center_y == bounds.y + (bounds.height * 48) \div 100
        min_gap == size * 2600
        max_gap == (bounds.width * 60) \div 100
        gap == clamp((bounds.width * 30) \div 100 + size * 1000, min_gap, max_gap)
    IN  [ok |-> gap.ok,
         left |-> <<mid_x - gap.val \div 2, center_y>>,
         right |-> <<mid_x + gap.val \div 2, center_y>>]

\* a shift that moves the origin along both axes
shift_xy(vp, dy) == [vp EXCEPT !.origin = <<@[1] + dy, @[2] + dy>>]

\* origin.1 += dy
shift_y(vp, dy) == [vp EXCEPT !.origin = <<@[1], @[2] + dy>>]

\* left and right are the two views after the call (they are `&mut`);
\* ok = FALSE: the call panicked, before it wrote to either
fit_vertically(bounds, left, right) ==
    LET min_all == Min2(min_projected_y(left), min_projected_y(right))
        max_all == Max2(max_projected_y(left), max_projected_y(right))
        center_all == (min_all + max_all) \div 2
        desired_center == bounds.y + (bounds.height * 48) \div 100
        top_margin == bounds.y + 8000
        bottom_margin == bounds.y + bounds.height - 8000
        dy == clamp(desired_center - center_all,
                    top_margin - min_all, bottom_margin - max_all)
    IN  IF ~dy.ok THEN [ok |-> FALSE, left |-> left, right |-> right]
        ELSE IF Abs(dy.val) > 10
             THEN [ok |-> TRUE, left |-> shift_y(left, dy.val), right |-> shift_y(right, dy.val)]
             ELSE [ok |-> TRUE, left |-> left, right |-> right]

RunLayoutOrigins ==
    /\ call.fn = "layout_origins"
    /\ ~call.done
    /\ call' = [call EXCEPT !.done = TRUE,
                            !.ret = layout_origins(call.arg.bounds, call.arg.size)]
    /\ UNCHANGED <<cube, start, hist, res, appVars>>

RunFitVertically ==
    /\ call.fn = "fit_vertically"
    /\ ~call.done
    /\ call' = [call EXCEPT !.done = TRUE,
                  !.ret = fit_vertically(call.arg.bounds, call.arg.left, call.arg.right)]
    /\ UNCHANGED <<cube, start, hist, res, appVars>>

\* the inputs: sizes (the slider gives 16..40), viewports, and the places of
\* an origin, each a distance from the bottom margin of the viewport
InitLayout ==
    LET Sizes == {1, 16, 22, 40}
        Widths == {Px(0), Px(50), Px(100), Px(104), Px(173), Px(174), Px(400), Px(1024)}
        Heights == {Px(0), Px(80), Px(100), Px(104), Px(120), Px(320)}
        Tops == {Px(0), Px(10)}
        Lefts == {Px(0), Px(-20), Px(15)}
        Offsets == {Px(-60), -20, -4, 0, 4, 20, Px(60)}
        LeftAngles == {<<0, 0, 0>>, <<90, 0, 270>>}
        RightAngles == {<<90, 180, 0>>, <<0, 180, 0>>}
    IN
    /\ \/ \E x \in Lefts, y \in Tops, w \in Widths, h \in Heights, size \in Sizes :
             call = Call("layout_origins",
                         [bounds |-> Rectangle(x, y, w, h), size |-> size])
       \/ \E y \in Tops, h \in Heights \ {Px(0)}, la \in LeftAngles, ra \in RightAngles,
             ls \in Sizes \ {1}, rs \in Sizes \ {1}, lo \in Offsets, ro \in Offsets :
             call = Call("fit_vertically",
                         [bounds |-> Rectangle(Px(0), y, Px(800), h),
                          left |-> ViewParams(la[1], la[2], la[3],
                                              <<Px(250), y + h - 8000 + lo>>, ls),
                          right |-> ViewParams(ra[1], ra[2], ra[3],
                                               <<Px(550), y + h - 8000 + ro>>, rs)])
    /\ cube = CubeDefault
    /\ start = CubeDefault
    /\ hist = <<>>
    /\ res = Ok(CubeDefault)
    /\ AppIdle

NextLayout == RunLayoutOrigins \/ RunFitVertically

SpecLayout == InitLayout /\ [][NextLayout]_vars

(***************************************************************************)
(* Scramble runs: scramble_with_seed called several times, with the cube   *)
(* turned in between.                                                      *)
(***************************************************************************)
RunScramble(len, seed) ==
    /\ Len(hist) < MaxCalls
    /\ call' = [fn |-> "scramble_with_seed", arg |-> [len |-> len, seed |-> seed],
                done |-> TRUE, ret |-> scramble_with_seed(len, seed)]
    /\ hist' = Append(hist, call')
    /\ UNCHANGED <<cube, start, res, appVars>>

\* the cube changes between two calls
TurnBetween ==
    /\ hist # <<>>
    /\ LET r == apply_token(cube, <<"R">>)
       IN  /\ res' = r
           /\ cube' = r.cube
    /\ UNCHANGED <<start, hist, call, appVars>>

InitScramble ==
    /\ cube \in {CubeDefault, u_cw(CubeDefault)}
    /\ start = cube
    /\ hist = <<>>
    /\ res = Ok(cube)
    /\ call = NoCall
    /\ AppIdle

NextScramble ==
    \/ \E len \in {0, 1, SCRAMBLE_LEN}, seed \in {0, 7, 42} : RunScramble(len, seed)
    \/ TurnBetween

SpecScramble == InitScramble /\ [][NextScramble]_vars

(***************************************************************************)
(* src/app/update.rs: the camera, seed and no-op messages.  Angles and     *)
(* the size are whole numbers (both sliders step by 1.0).                  *)
(***************************************************************************)
\* a wrap that leaves the angle as it is
wrap_none(v) == v

wrap_deg(v) ==
    LET r == frem(v, 360)
    IN  IF r < 0 THEN r + 360 ELSE r

\* a sync that copies all three angles
sync_copy(app) ==
    IF app.link_opposite
    THEN [app EXCEPT !.params.right = app.params.left]
    ELSE app

sync_right_from_left(app) ==
    IF app.link_opposite
    THEN [app EXCEPT !.params.right.rz = app.params.left.rz,
                     !.params.right.ry = app.params.left.ry,
                     !.params.right.rx = wrap_deg(app.params.left.rx + 180)]
    ELSE app

Axes == {"rz", "rx", "ry"}
AxisMsg(side, axis) ==
    CASE axis = "rz" -> side \o "RzChanged"
      [] axis = "rx" -> side \o "RxChanged"
      [] axis = "ry" -> side \o "RyChanged"

\* Msg::LeftRzChanged, LeftRxChanged, LeftRyChanged
LeftChanged(axis, v) ==
    /\ Handled(sync_right_from_left(
                  [App EXCEPT !.params.left[axis] = set_deg(v, snap90)]),
               MsgOf(AxisMsg("Left", axis), v))
    /\ UNCHANGED moves

\* a right edit that keeps the link
unlink_not(app) == app

\* app.link_opposite = false
unlink(app) == [app EXCEPT !.link_opposite = FALSE]

\* Msg::RightRzChanged, RightRxChanged, RightRyChanged
RightChanged(axis, v) ==
    /\ Handled([unlink(App) EXCEPT !.params.right[axis] = set_deg(v, snap90)],
               MsgOf(AxisMsg("Right", axis), v))
    /\ UNCHANGED moves

SizeChanged(v) ==
    /\ Handled([App EXCEPT !.params.size = v], MsgOf("SizeChanged", v))
    /\ UNCHANGED moves

PresetLeft ==
    /\ Handled(sync_right_from_left([App EXCEPT !.params.left = ViewUI(0, 0, 0)]),
               MsgOf("PresetLeft", <<>>))
    /\ UNCHANGED moves

PresetRight ==
    /\ Handled(unlink([App EXCEPT !.params.right = ViewUI(90, 180, 0)]),
               MsgOf("PresetRight", <<>>))
    /\ UNCHANGED moves

ResetCameras ==
    /\ LET app == [App EXCEPT !.params.left = ViewUI(0, 0, 0),
                              !.params.right = ViewUI(90, 180, 0)]
       IN  Handled(IF app.link_opposite THEN sync_right_from_left(app) ELSE app,
                   MsgOf("ResetCameras", <<>>))
    /\ UNCHANGED moves

ToggleSnap90(on) ==
    /\ Handled([App EXCEPT !.snap90 = on], MsgOf("ToggleSnap90", on))
    /\ UNCHANGED moves

ToggleOpposite(on) ==
    /\ LET app == [App EXCEPT !.link_opposite = on]
       IN  Handled(IF on THEN sync_right_from_left(app) ELSE app,
                   MsgOf("ToggleOpposite", on))
    /\ UNCHANGED moves

\* u64::to_string
RECURSIVE u64_to_string(_)
u64_to_string(n) ==
    IF n < 10 THEN <<Digits[n + 1]>>
    ELSE Append(u64_to_string(n \div 10), Digits[(n % 10) + 1])

\* the status text has an em dash where this one has a hyphen
ApplySeed ==
    /\ moves < MaxMoves
    /\ LET seed == parse_u64(trim(seed_input))
       IN  Handled(IF seed.ok THEN apply_seeded_scramble(App, seed.val)
                   ELSE [App EXCEPT !.status =
                            <<"No valid seed entered - nothing applied.">>],
                   MsgOf("ApplySeed", <<>>))
    /\ moves' = moves + 1

\* thread_rng().next_u64() is any seed
Scramble(seed) ==
    /\ moves < MaxMoves
    /\ Handled(apply_seeded_scramble([App EXCEPT !.seed_input = u64_to_string(seed)],
                                     seed),
               MsgOf("Scramble", seed))
    /\ moves' = moves + 1

Reset ==
    /\ Handled([App EXCEPT !.alg_input = <<>>, !.seed_input = <<>>, !.status = <<>>],
               MsgOf("Reset", <<>>))
    /\ UNCHANGED moves

SeedClear ==
    /\ Handled([App EXCEPT !.seed_input = <<>>], MsgOf("SeedClear", <<>>))
    /\ UNCHANGED moves

\* Msg::Noop and the `_ => {}` arm (SeedGenerate, SeedScramble)
Ignored(type) ==
    /\ Handled(App, MsgOf(type, <<>>))
    /\ UNCHANGED moves

\* what the sliders, check boxes and the thread's generator can carry
AnglePayloads == {200, 360}
SizePayloads == {16}
RngSeeds == {7, 42}

CameraMsg ==
    \/ \E axis \in Axes, v \in AnglePayloads : LeftChanged(axis, v)
    \/ \E axis \in Axes, v \in AnglePayloads : RightChanged(axis, v)
    \/ \E v \in SizePayloads : SizeChanged(v)
    \/ PresetLeft
    \/ PresetRight
    \/ ResetCameras
    \/ \E on \in BOOLEAN : ToggleSnap90(on)
    \/ \E on \in BOOLEAN : ToggleOpposite(on)

(***************************************************************************)
(* Camera runs: the application from App::default() under the camera       *)
(* messages and the ignored ones (the other messages do not write to the   *)
(* camera fields).                                                         *)
(***************************************************************************)
NextCam ==
    \/ CameraMsg
    \/ \E type \in {"Noop", "SeedGenerate", "SeedScramble"} : Ignored(type)

SpecCam == Init /\ [][NextCam]_vars

(***************************************************************************)
(* Single messages: update() handling one message, of any kind, in an      *)
(* application state with a turned cube, typed text and moved cameras.     *)
(***************************************************************************)
InitMsg ==
    /\ cube \in {CubeDefault, r_cw(CubeDefault),
                 apply_alg(CubeDefault, scramble_with_seed(SCRAMBLE_LEN, 7)).cube}
    /\ alg_input \in {<<>>, <<"R", " ", "X", " ", "U">>,
                       <<" ", "F", "2", " ", " ", "B", "'", " ">>}
    /\ seed_input \in SeedInputs
    /\ status = <<>>
    /\ msg = MsgOf("Init", <<>>)
    /\ moves = 0
    /\ \/ CamDefault
       \/ /\ params = [size |-> 16, left |-> ViewUI(0, 200, 0), right |-> ViewUI(0, 20, 0)]
          /\ snap90 = FALSE
          /\ link_opposite = TRUE
       \/ /\ params = [size |-> 22, left |-> ViewUI(180, 0, 0), right |-> ViewUI(200, 180, 0)]
          /\ snap90 = TRUE
          /\ link_opposite = FALSE
    /\ start = cube
    /\ hist = <<>>
    /\ res = Ok(cube)
    /\ call = NoCall

NextMsg ==
    /\ msg.type = "Init"
    /\ \/ CameraMsg
       \/ \E type \in {"Noop", "SeedGenerate", "SeedScramble"} : Ignored(type)
       \/ \E s \in AlgInputs : AlgChanged(s)
       \/ \E s \in SeedInputs : SeedChanged(s)
       \/ ApplyAlg
       \/ ResetCube
       \/ \E tok \in MoveInputs : Move(tok)
       \/ ApplySeed
       \/ \E seed \in RngSeeds : Scramble(seed)
       \/ Reset
       \/ SeedClear

SpecMsg == InitMsg /\ [][NextMsg]_vars

(***************************************************************************)
(* Claims                                                                  *)
(***************************************************************************)
Count(c, col) == Cardinality({p \in Pos : At(c, p) = col})

\* C1: sticker conservation: every cube reached from Cube::default() by
\* valid tokens (single moves, algorithms, seeded scrambles) has exactly 4
\* stickers of each of the 6 colours.
C1_Conservation == \A col \in Col : Count(cube, col) = 4

Plain(X) == <<X>>
Prime(X) == <<X, "'">>
Half(X) == <<X, "2">>
Tokens18 == {Plain(X) : X \in Faces} \cup {Prime(X) : X \in Faces}
                \cup {Half(X) : X \in Faces}

\* C1 witness: a cube two handler runs away from solved, turned by a token
\* and then by an algorithm
C1_Witness ==
    /\ moves = 2
    /\ msg.type = "ApplyAlg"
    /\ status = <<"Applied algorithm.">>
    /\ cube \notin {CubeDefault, f_180(b_ccw(CubeDefault))}

\* C2: order-4 law: for every face X and every cube, four plain tokens X in a
\* row give back the cube the run started from.  (A turn moves stickers
\* whatever their colours, so the cubes with a single marked sticker, one
\* per position, decide it for every colouring.)
C2_Order4 ==
    \A X \in Faces :
        hist = <<Plain(X), Plain(X), Plain(X), Plain(X)>> => cube = start

C2_Witness ==
    /\ hist = <<Plain("R"), Plain("R"), Plain("R"), Plain("R")>>
    /\ res.ok
    /\ start = OneHot(<<"U", 0, 1>>)

\* C3: inverse tokens: X then X', X' then X, and X2 twice each give back the
\* cube the run started from.
C3_Inverse ==
    \A X \in Faces :
        hist \in {<<Plain(X), Prime(X)>>, <<Prime(X), Plain(X)>>,
                  <<Half(X), Half(X)>>}
            => cube = start

C3_Witness ==
    /\ hist = <<Plain("F"), Prime("F")>>
    /\ res.ok
    /\ start = OneHot(<<"U", 1, 0>>)

\* C4: rigid clockwise turn: the plain token X carries the sticker of every
\* cell of X's layer (X's own four cells and the eight cells touching X) to
\* the cell that cell is turned onto by a 90-degree turn about X's axis,
\* clockwise seen from outside, in the layout of cell_quad_raw.
C4_RigidClockwise ==
    \A X \in Faces, p \in Pos :
        (hist = <<Plain(X)>> /\ start = OneHot(p) /\ InLayer(p, X))
            => cube = OneHot(TurnCell(X, p))

\* C5: the boundary strips belong to the turned layer: a sticker outside face
\* X is moved by the plain token X exactly when its cell touches X in the
\* layout of cell_quad_raw.
C5_StripsTouchFace ==
    \A X \in Faces, p \in Pos :
        (hist = <<Plain(X)>> /\ start = OneHot(p) /\ p[1] # X)
            => ((cube # start) <=> Touches(p, X))

\* the strips of X that read (G, Y), resp. (Y, G), in snapshot order
ReversedStrips(X, c) ==
    {j \in 1..4 : At(c, Strips(X)[j][1]) = "G" /\ At(c, Strips(X)[j][2]) = "Y"}
KeptStrips(X, c) ==
    {j \in 1..4 : At(c, Strips(X)[j][1]) = "Y" /\ At(c, Strips(X)[j][2]) = "G"}

\* C6 as stated: of the four strip transfers of a quarter turn of X exactly
\* one writes its strip reversed and three keep the order.
C6_OneReversal ==
    \A X \in Faces :
        (hist = <<Plain(X)>> /\ start = StripMarked(X))
            => /\ Cardinality(ReversedStrips(X, cube)) = 1
               /\ Cardinality(KeptStrips(X, cube)) = 3

\* C6 amended: a quarter turn of U or D reverses none of its four strip
\* transfers; a quarter turn of R, L, F or B reverses exactly two of the four;
\* the other transfers keep the order of the two stickers.
C6_EvenReversals ==
    \A X \in Faces :
        (hist = <<Plain(X)>> /\ start = StripMarked(X))
            => LET n == IF X \in {"U", "D"} THEN 0 ELSE 2
               IN  /\ Cardinality(ReversedStrips(X, cube)) = n
                   /\ Cardinality(KeptStrips(X, cube)) = 4 - n

C6_Witness ==
    /\ hist = <<Plain("R")>>
    /\ start = StripMarked("R")
    /\ ReversedStrips("R", cube) = {1, 4}

\* the tokens of an algorithm before its first unknown one, and that one
FirstBad(toks) ==
    IF \E i \in 1..Len(toks) : toks[i] \notin Tokens18
    THEN CHOOSE i \in 1..Len(toks) :
            /\ toks[i] \notin Tokens18
            /\ \A j \in 1..(i - 1) : toks[j] \in Tokens18
    ELSE Len(toks) + 1

RECURSIVE TurnAll(_, _)
TurnAll(c, toks) ==
    IF toks = <<>> THEN c ELSE TurnAll(apply_token(c, Head(toks)).cube, Tail(toks))

\* C7: fail-fast sequence: ApplyAlg with a non-blank algorithm leaves the cube
\* as turned by exactly the tokens before the first unknown token, in order,
\* and the status then names that token; with no unknown token every token
\* is applied.
C7_FailFast ==
    [][(msg'.type = "ApplyAlg" /\ trim(alg_input) # <<>>) =>
        LET toks == split_whitespace(alg_input)
            k == FirstBad(toks)
        IN  /\ cube' = TurnAll(cube, SubSeq(toks, 1, k - 1))
            /\ status' = IF k <= Len(toks)
                         THEN <<"Algorithm error: ", "Unknown move: ">> \o toks[k]
                         ELSE <<"Applied algorithm.">>]_vars

\* "R X U" on the solved cube: the cube is R alone, the status names X
C7_Witness ==
    /\ msg.type = "ApplyAlg"
    /\ alg_input = <<"R", " ", "X", " ", "U">>
    /\ status = <<"Algorithm error: ", "Unknown move: ", "X">>
    /\ cube = r_cw(CubeDefault)
    /\ cube # u_cw(r_cw(CubeDefault))

\* C8: invalid single token: Msg::Move with a string that is not one of the
\* 18 tokens reports the error and leaves all 24 stickers as they were.
C8_InvalidToken ==
    [][(msg'.type = "Move" /\ msg'.arg \notin Tokens18) =>
        /\ cube' = cube
        /\ status' = <<"Unknown move: ">> \o msg'.arg]_vars

C8_Witness ==
    /\ msg = MsgOf("Move", <<"u">>)
    /\ status = <<"Unknown move: ", "u">>
    /\ moves = 2
    /\ cube # CubeDefault

\* the turn a token names: its face, and one, three or two quarter turns
FaceTurn(tok, c) ==
    LET X == tok[1]
        cw == CASE X = "U" -> u_cw(c) [] X = "D" -> d_cw(c) [] X = "R" -> r_cw(c)
                [] X = "L" -> l_cw(c) [] X = "F" -> f_cw(c) [] X = "B" -> b_cw(c)
        ccw == CASE X = "U" -> u_ccw(c) [] X = "D" -> d_ccw(c) [] X = "R" -> r_ccw(c)
                 [] X = "L" -> l_ccw(c) [] X = "F" -> f_ccw(c) [] X = "B" -> b_ccw(c)
        half == CASE X = "U" -> u_180(c) [] X = "D" -> d_180(c) [] X = "R" -> r_180(c)
                  [] X = "L" -> l_180(c) [] X = "F" -> f_180(c) [] X = "B" -> b_180(c)
    IN  IF Len(tok) = 1 THEN cw ELSE IF tok[2] = "'" THEN ccw ELSE half

\* C9: closed alphabet: apply_token returns Ok exactly for the 18 strings X,
\* X', X2 (nothing before or after, upper case only), and an accepted token
\* makes the turn of its own face and kind.
C9_ClosedAlphabet ==
    Len(hist) = 1 =>
        /\ res.ok <=> hist[1] \in Tokens18
        /\ res.ok => cube = FaceTurn(hist[1], start)

C9_Witness ==
    /\ hist = <<Prime("L")>>
    /\ res.ok
    /\ start = OneHot(<<"F", 1, 0>>)
    /\ cube = OneHot(<<"D", 1, 0>>)

\* the colour of each face of a new cube
Canonical(X) ==
    CASE X = "U" -> "W" [] X = "D" -> "Y" [] X = "F" -> "G"
      [] X = "B" -> "B" [] X = "L" -> "O" [] X = "R" -> "R"

\* C10: a new cube, and the cube right after Msg::ResetCube, shows on all four
\* stickers of each face that face's colour: U=W, D=Y, F=G, B=B, L=O, R=R.
C10_FreshCube ==
    msg.type \in {"Init", "ResetCube"} =>
        \A p \in Pos : At(cube, p) = Canonical(p[1])

C10_Witness ==
    /\ msg.type = "ResetCube"
    /\ status = <<"Cube reset.">>
    /\ moves = 0
    /\ alg_input = <<"R", " ", "X", " ", "U">>

\* C11: derived turns: for every face X and every cube, the token X' gives
\* the cube that three clockwise quarter turns of X give, and the token X2
\* the cube that two clockwise quarter turns of X give.
C11_DerivedTurns ==
    \A X \in Faces :
        /\ hist = <<Prime(X)>> =>
               cube = FaceTurn(Plain(X), FaceTurn(Plain(X), FaceTurn(Plain(X), start)))
        /\ hist = <<Half(X)>> =>
               cube = FaceTurn(Plain(X), FaceTurn(Plain(X), start))

C11_Witness ==
    /\ hist = <<Half("F")>>
    /\ res.ok
    /\ start = OneHot(<<"U", 1, 0>>)
    /\ cube = f_cw(f_cw(start))
    /\ cube # start

\* C12: token order is significant: apply_alg applies the tokens of its
\* string from left to right, and on the solved cube "R U" and "U R" give
\* different cubes.
C12_OrderSignificant ==
    (call.fn = "apply_alg" /\ call.done) =>
        /\ cube = FaceTurn(hist[2], FaceTurn(hist[1], start))
        /\ (start = CubeDefault /\ hist = <<Plain("R"), Plain("U")>>) =>
               /\ cube = u_cw(r_cw(CubeDefault))
               /\ cube # r_cw(u_cw(CubeDefault))
               /\ cube # FaceTurn(hist[1], FaceTurn(hist[2], start))

C12_Witness ==
    /\ call = [fn |-> "apply_alg", arg |-> <<"R", " ", "U">>, done |-> TRUE, ret |-> TRUE]
    /\ start = CubeDefault
    /\ hist = <<Plain("R"), Plain("U")>>
    /\ cube # r_cw(u_cw(CubeDefault))

\* C13: angle range: for every whole-degree angle v, of any sign and
\* magnitude, and both values of snap90, set_deg(v, snap90) is a d with
\* 0 <= d < 360.
C13_AngleRange ==
    (call.fn = "set_deg" /\ call.done) => (0 <= call.ret /\ call.ret < 360)

\* the angles set_deg does bring into [0, 360): without snap all of them,
\* with snap those that round to -720 or more
C13_RangeFrom720 ==
    (call.fn = "set_deg" /\ call.done
        /\ (call.arg.snap90 => call.arg.v > -765)) =>
        (0 <= call.ret /\ call.ret < 360)

\* C14: angle value: without snap set_deg(v, false) is v mod 360 in [0, 360);
\* with snap it is the multiple of 90 nearest to v, reduced mod 360
\* (100 -> 90, 140 -> 180, 330 -> 0, -30 -> 330 without snap).
C14_AngleValue ==
    (call.fn = "set_deg" /\ call.done) =>
        LET v == call.arg.v
        IN  IF call.arg.snap90
            THEN \E k \in -13..13 :
                    /\ \A j \in -13..13 : Abs(90 * k - v) <= Abs(90 * j - v)
                    /\ call.ret = (90 * k) % 360
            ELSE call.ret = v % 360

\* the examples of C14, which set_deg computes as stated
C14_Examples ==
    (call.fn = "set_deg" /\ call.done) =>
        /\ call.arg = [v |-> -30, snap90 |-> FALSE] => call.ret = 330
        /\ call.arg = [v |-> 100, snap90 |-> TRUE] => call.ret = 90
        /\ call.arg = [v |-> 140, snap90 |-> TRUE] => call.ret = 180
        /\ call.arg = [v |-> 330, snap90 |-> TRUE] => call.ret = 0

View(rz, rx, ry) == [rz |-> rz, rx |-> rx, ry |-> ry]
FaceView(face, rz, rx, ry) == [face |-> face, rz |-> rz, rx |-> rx, ry |-> ry]

\* C15: back-face test: with Rz = Ry = Rx = 0 face_visible reports F visible
\* and B not visible; with Rx = 180 and Rz = Ry = 0 it reports F not visible
\* and B visible.
C15_BackFace ==
    (call.fn = "face_visible" /\ call.done) =>
        /\ call.arg = FaceView("F", 0, 0, 0) => call.ret = TRUE
        /\ call.arg = FaceView("B", 0, 0, 0) => call.ret = FALSE
        /\ call.arg = FaceView("F", 0, 180, 0) => call.ret = FALSE
        /\ call.arg = FaceView("B", 0, 180, 0) => call.ret = TRUE

C15_Witness ==
    /\ call.fn = "face_visible"
    /\ call.done
    /\ call.arg = FaceView("B", 0, 180, 0)
    /\ call.ret = TRUE

IndexIn(s, x) == CHOOSE i \in 1..Len(s) : s[i] = x

\* the faces of a render call come in ascending face_depth, and two faces of
\* equal depth come in the order they have in the sequence `tie`
OrderedBy(tie) ==
    (call.fn = "render" /\ call.done) =>
        LET o == call.ret.order
            depth(f) == face_depth(f, call.arg.rz, call.arg.rx, call.arg.ry)
        IN  /\ {o[i] : i \in 1..Len(o)} = Faces
            /\ Len(o) = 6
            /\ \A i \in 1..6, j \in 1..6 :
                  i < j =>
                     /\ depth(o[i]) <= depth(o[j])
                     /\ depth(o[i]) = depth(o[j]) =>
                           IndexIn(tie, o[i]) < IndexIn(tie, o[j])

\* C16: draw order: the six faces are processed in ascending face_depth, and
\* faces of equal depth in the order U, D, F, B, L, R of the enum FaceId (at
\* all angles 0: B before R, F before L).
C16_DrawOrderById == OrderedBy(FaceId)

\* C16 as the code has it: the six faces are processed in ascending
\* face_depth, and faces of equal depth in the order U, R, F, D, L, B of the
\* array the render closure sorts (at all angles 0: R before B, F before L).
C16_DrawOrder == OrderedBy(<<"U", "R", "F", "D", "L", "B">>)

C16_Witness ==
    /\ call.fn = "render"
    /\ call.done
    /\ call.arg = View(0, 0, 0)
    /\ face_depth("B", 0, 0, 0) = face_depth("R", 0, 0, 0)
    /\ face_depth("F", 0, 0, 0) = face_depth("L", 0, 0, 0)
    /\ call.ret.order = <<"D", "F", "L", "R", "B", "U">>

\* the combined projected vertical extent of two views
MinAll(left, right) == Min2(min_projected_y(left), min_projected_y(right))
MaxAll(left, right) == Max2(max_projected_y(left), max_projected_y(right))
Feasible(b, left, right) == MaxAll(left, right) - MinAll(left, right) <= b.height - Px(16)

\* after a fit_vertically call that was feasible, the two views lie between
\* the two margins, give or take tol thousandths of a pixel
ContainedWithin(tol) ==
    (call.fn = "fit_vertically" /\ call.done
        /\ Feasible(call.arg.bounds, call.arg.left, call.arg.right)) =>
        /\ call.ret.ok
        /\ MinAll(call.ret.left, call.ret.right) >= call.arg.bounds.y + Px(8) - tol
        /\ MaxAll(call.ret.left, call.ret.right)
              <= call.arg.bounds.y + call.arg.bounds.height - Px(8) + tol

ShiftOf(before, after) == after.origin[2] - before.origin[2]

\* C18: oversized cube: when the combined extent exceeds height - 16,
\* fit_vertically still completes without failure and applies a finite shift
\* bounded by the two margin limits (bottom_margin - max_all and
\* top_margin - min_all).
C18_Oversized ==
    (call.fn = "fit_vertically" /\ call.done
        /\ ~Feasible(call.arg.bounds, call.arg.left, call.arg.right)) =>
        LET b == call.arg.bounds
            dy == ShiftOf(call.arg.left, call.ret.left)
            lo == b.y + b.height - Px(8) - MaxAll(call.arg.left, call.arg.right)
            hi == b.y + Px(8) - MinAll(call.arg.left, call.arg.right)
        IN  /\ call.ret.ok
            /\ ShiftOf(call.arg.right, call.ret.right) = dy
            /\ (dy = 0 \/ (lo <= dy /\ dy <= hi))

\* fit_vertically panics exactly when the two views do not fit between the
\* margins
C18_PanicsWhenOversized ==
    (call.fn = "fit_vertically" /\ call.done) =>
        (call.ret.ok <=> Feasible(call.arg.bounds, call.arg.left, call.arg.right))

\* C19: horizontal gap: for every viewport width W >= 0 and every size > 0,
\* layout_origins returns two origins with the same Y whose horizontal
\* distance is g = clamp(0.30 W + size, 2.6 size, 0.60 W), with
\* 2.6 size <= g <= 0.60 W, placed symmetrically about the viewport's
\* horizontal centre.
C19_Gap ==
    (call.fn = "layout_origins" /\ call.done) =>
        LET b == call.arg.bounds
            size == call.arg.size
            l == call.ret.left
            r == call.ret.right
            g == r[1] - l[1]
            want == (b.width * 30) \div 100 + Px(size)
            lo == size * 2600
            hi == (b.width * 60) \div 100
        IN  /\ call.ret.ok
            /\ l[2] = r[2]
            /\ lo <= g /\ g <= hi
            /\ g = IF want < lo THEN lo ELSE IF want > hi THEN hi ELSE want
            /\ l[1] + r[1] = 2 * b.x + b.width

\* layout_origins panics exactly when 2.6 size > 0.60 W, and is as C19 says
\* otherwise
C19_GapWhenRoom ==
    (call.fn = "layout_origins" /\ call.done) =>
        LET b == call.arg.bounds
            size == call.arg.size
            l == call.ret.left
            r == call.ret.right
            g == r[1] - l[1]
            want == (b.width * 30) \div 100 + Px(size)
            lo == size * 2600
            hi == (b.width * 60) \div 100
        IN  /\ call.ret.ok <=> lo <= hi
            /\ call.ret.ok =>
                  /\ l[2] = r[2]
                  /\ lo <= g /\ g <= hi
                  /\ g = IF want < lo THEN lo ELSE IF want > hi THEN hi ELSE want
                  /\ l[1] + r[1] = 2 * b.x + b.width

\* C20: frame of fit_vertically: the call adds one and the same shift to the
\* Y of both origins and changes nothing else: X, the three angles and the
\* size of each view stay, and so does left.origin.y - right.origin.y.
C20_OnlyY ==
    (call.fn = "fit_vertically" /\ call.done) =>
        LET dy == ShiftOf(call.arg.left, call.ret.left)
        IN  /\ call.ret.left = [call.arg.left EXCEPT !.origin = <<@[1], @[2] + dy>>]
            /\ call.ret.right = [call.arg.right EXCEPT !.origin = <<@[1], @[2] + dy>>]
            /\ call.ret.left.origin[2] - call.ret.right.origin[2]
                  = call.arg.left.origin[2] - call.arg.right.origin[2]

C20_Witness ==
    /\ call.fn = "fit_vertically"
    /\ call.done
    /\ call.ret.ok
    /\ ShiftOf(call.arg.left, call.ret.left) < -10
    /\ call.arg.left.origin[2] # call.arg.right.origin[2]
    /\ call.arg.left.size # call.arg.right.size
    /\ call.ret.right.origin[1] = Px(550)

\* the right-handed rotation by deg (a multiple of 90) about the unit axis e:
\* a quarter turn takes v to e x v + (e . v) e
RECURSIVE QuarterTurns(_, _, _)
QuarterTurns(e, k, v) ==
    IF k = 0 THEN v
    ELSE LET w == QuarterTurns(e, k - 1, v)
             x == Cross(e, w)
             d == Dot(e, w)
         IN  <<x[1] + d * e[1], x[2] + d * e[2], x[3] + d * e[3]>>
RightHanded(e, deg, v) == QuarterTurns(e, (deg \div 90) % 4, v)

\* translate by -(1,1,1), turn about Z, then Y, then X, translate back
Composed(p, rz, ry, rx) ==
    LET v == RightHanded(<<1, 0, 0>>, rx,
                RightHanded(<<0, 1, 0>>, ry,
                   RightHanded(<<0, 0, 1>>, rz, <<p[1] - 1, p[2] - 1, p[3] - 1>>)))
    IN  <<v[1] + 1, v[2] + 1, v[3] + 1>>

ComposedDepth(f, a) ==
    LET C == CHOOSE c \in RotatedPoints :
                \A i \in 1..4 : Dot(<<c[1] - 1, c[2] - 1, c[3] - 1>>,
                                    <<face_outer(f)[i][1] - 1, face_outer(f)[i][2] - 1,
                                      face_outer(f)[i][3] - 1>>) = 1
        c == Composed(C, a.rz, a.ry, a.rx)
    IN  -project(c[1], c[2], c[3], 1, <<0, 0>>)[2]

ComposedArea(f, a) ==
    LET pts == [i \in 1..4 |->
                  LET q == Composed(face_outer(f)[i], a.rz, a.ry, a.rx)
                  IN  project(q[1], q[2], q[3], 1, <<0, 0>>)]
        term(i) == pts[i][1] * pts[(i % 4) + 1][2] - pts[(i % 4) + 1][1] * pts[i][2]
    IN  term(1) + term(2) + term(3) + term(4)

CubeMsgs == {"Move", "ApplyAlg", "ApplySeed", "Scramble", "ResetCube"}

\* C23: separation of move path and view state: Move, ApplyAlg, ApplySeed,
\* Scramble and ResetCube never change the camera angles, the size, snap90
\* or link_opposite; every other message leaves all 24 stickers unchanged.
C23_Separation ==
    [][/\ msg'.type \in CubeMsgs => UNCHANGED <<params, snap90, link_opposite>>
       /\ msg'.type \notin CubeMsgs => \A p \in Pos : At(cube', p) = At(cube, p)]_vars

C23_Witness ==
    /\ msg.type = "Scramble"
    /\ cube # start
    /\ start # CubeDefault
    /\ params = [size |-> 16, left |-> ViewUI(0, 200, 0), right |-> ViewUI(0, 20, 0)]
    /\ link_opposite

\* the three stickers that meet at a corner of the cube, in the layout of
\* cell_quad_raw
CubeCorners == {0, 2} \X {0, 2} \X {0, 2}
StickersAt(pt) == {p \in Pos : pt \in Cell(p)}
OppositeCols == {{"W", "Y"}, {"G", "B"}, {"O", "R"}}
CornerPiece(c, pt) ==
    LET cols == {At(c, p) : p \in StickersAt(pt)}
    IN  /\ Cardinality(StickersAt(pt)) = 3
        /\ Cardinality(cols) = 3
        /\ \A pair \in OppositeCols : ~(pair \subseteq cols)

\* C24: corner integrity: in every cube reachable from the solved cube by
\* valid tokens, the three stickers meeting at each of the 8 corners show
\* three different colours, no two of them colours of opposite faces.
C24_CornerIntegrity == \A pt \in CubeCorners : CornerPiece(cube, pt)

\* corner integrity does hold on the solved cube and after U and D turns
C24_HoldsForUD ==
    (msg.type \in {"Init", "ResetCube"}
        \/ (moves = 1 /\ msg.type = "Move" /\ msg.arg \in Tokens
              /\ msg.arg[1] \in {"U", "D"})) =>
        \A pt \in CubeCorners : CornerPiece(cube, pt)


\* the pairs of opposite faces
OppositeFaces == {{"U", "D"}, {"F", "B"}, {"L", "R"}}

\* C25: opposite faces commute: for each pair of opposite faces (U, D),
\* (F, B), (L, R), every token a of one face, every token b of the other and
\* every cube, the algorithm "a b" gives the cube that "b a" gives.
C25_OppositeCommute ==
    (call.fn = "apply_alg" /\ call.done /\ {hist[1][1], hist[2][1]} \in OppositeFaces) =>
        /\ res.ok
        /\ cube = FaceTurn(hist[1], FaceTurn(hist[2], start))
        /\ cube = apply_alg(start, join(<<hist[2], hist[1]>>)).cube

C25_Witness ==
    /\ call = [fn |-> "apply_alg", arg |-> <<"U", " ", "D", "'">>, done |-> TRUE, ret |-> TRUE]
    /\ start = OneHot(<<"F", 0, 0>>)
    /\ hist = <<Plain("U"), Prime("D")>>
    /\ cube = d_ccw(u_cw(start))
    /\ cube = u_cw(d_ccw(start))
    /\ cube # start

\* the twelve positions of a quarter turn of X: the four of X and the eight
\* of the strips of its neighbours
Frame(X) ==
    {<<X, r, k>> : r \in Idx, k \in Idx}
        \cup {Strips(X)[j][i] : j \in 1..4, i \in 1..2}

\* C26: frame of a quarter turn: the token X changes only the 4 stickers of
\* X and the 8 strip stickers of its four neighbours; the opposite face and
\* the other 2 stickers of each neighbour keep their stickers, and the 12
\* stickers are carried one-to-one onto the 12 positions.
C26_Frame ==
    \A X \in Faces :
        hist = <<Plain(X)>> =>
            /\ Cardinality(Frame(X)) = 12
            /\ \A p \in Pos \ Frame(X) : At(cube, p) = At(start, p)
            /\ \A col \in Col :
                   Cardinality({p \in Frame(X) : At(cube, p) = col})
                       = Cardinality({p \in Frame(X) : At(start, p) = col})

C26_Witness ==
    /\ hist = <<Plain("U")>>
    /\ res.ok
    /\ start = OneHot(<<"F", 0, 1>>)
    /\ At(cube, <<"R", 0, 1>>) = "Y"
    /\ \A p \in Pos \ Frame("U") : At(cube, p) = "W"

\* the six stored angles
Angles == {params[side][axis] : side \in {"left", "right"}, axis \in Axes}

LeftMsgs == {AxisMsg("Left", axis) : axis \in Axes} \cup {"PresetLeft"}
RightMsgs == {AxisMsg("Right", axis) : axis \in Axes} \cup {"PresetRight"}

\* C27: link invariant: in every application state reachable by messages
\* with angle payloads of the slider range, link_opposite = true implies
\* right.rz = left.rz, right.ry = left.ry and
\* right.rx = (left.rx + 180) mod 360.
C27_LinkInvariant ==
    link_opposite =>
        /\ params.right.rz = params.left.rz
        /\ params.right.ry = params.left.ry
        /\ params.right.rx = (params.left.rx + 180) % 360

\* linked, the left view tilted by 200 degrees: the right view is at 20
C27_Witness ==
    /\ link_opposite
    /\ msg = MsgOf("LeftRxChanged", 200)
    /\ params.left.rx = 200
    /\ params.right.rx = 20

\* C28: right edits break the link: after RightRzChanged, RightRxChanged,
\* RightRyChanged or PresetRight link_opposite is false; only
\* ToggleOpposite(true) sets it again; and while it is false no left-view
\* message (LeftRzChanged, LeftRxChanged, LeftRyChanged, PresetLeft) changes
\* a right-view angle.
C28_RightEditsUnlink ==
    [][/\ msg'.type \in RightMsgs => ~link_opposite'
       /\ (~link_opposite /\ link_opposite') => msg' = MsgOf("ToggleOpposite", TRUE)
       /\ (~link_opposite /\ msg'.type \in LeftMsgs) =>
              /\ params'.right = params.right
              /\ ~link_opposite']_vars

\* unlinked with the right view turned to 200: a left edit has left it there
C28_Witness ==
    /\ ~link_opposite
    /\ msg = MsgOf("LeftRxChanged", 200)
    /\ params.left = ViewUI(0, 200, 0)
    /\ params.right = ViewUI(200, 180, 0)

\* what a slider message stores, for every payload of the slider range and
\* both values of snap90
SliderStores == {set_deg(v, snap) : v \in 0..360, snap \in BOOLEAN}

\* C29: camera angles stay normalized: in every application state reachable
\* from the default state by messages with angle payloads of the slider
\* range 0..360, the six stored angles are in [0, 360), those written by
\* presets, ResetCameras and the opposite-link sync included.
C29_Normalized ==
    /\ \A a \in Angles : 0 <= a /\ a < 360
    /\ \A d \in SliderStores :
           /\ 0 <= d /\ d < 360
           /\ 0 <= wrap_deg(d + 180) /\ wrap_deg(d + 180) < 360

\* a slider at its right end stores 0, beside a synced angle that wrapped
C29_Witness ==
    /\ msg = MsgOf("RightRyChanged", 360)
    /\ params.right.ry = 0
    /\ params.left.rx = 200
    /\ params.right.rx = 20
    /\ ~link_opposite

\* the solved cube with the SCRAMBLE_LEN tokens of seed s applied
Scrambled(s) ==
    TurnAll(CubeDefault, split_whitespace(scramble_with_seed(SCRAMBLE_LEN, s)))

\* C30: seeded scramble starts from solved: after ApplySeed with a parsable
\* seed s, or Scramble choosing the seed s, the cube is the solved cube with
\* the 15 tokens of scramble_with_seed(15, s) applied, whatever the cube was
\* before, and alg_input holds that sequence; ApplySeed with an unparsable
\* seed leaves the cube as it was.
C30_FromSolved ==
    [][LET seed == parse_u64(trim(seed_input))
       IN  /\ (msg'.type = "ApplySeed" /\ seed.ok) =>
                  /\ cube' = Scrambled(seed.val)
                  /\ alg_input' = scramble_with_seed(SCRAMBLE_LEN, seed.val)
           /\ msg'.type = "Scramble" =>
                  /\ cube' = Scrambled(msg'.arg)
                  /\ alg_input' = scramble_with_seed(SCRAMBLE_LEN, msg'.arg)
                  /\ Len(split_whitespace(alg_input')) = 15
           /\ (msg'.type = "ApplySeed" /\ ~seed.ok) =>
                  cube' = cube]_vars

\* ApplySeed with the seed " 7 " on a cube turned by R
C30_Witness ==
    /\ msg.type = "ApplySeed"
    /\ seed_input = <<" ", "7", " ">>
    /\ start = r_cw(CubeDefault)
    /\ cube = Scrambled(7)
    /\ cube # apply_alg(start, scramble_with_seed(SCRAMBLE_LEN, 7)).cube
    /\ alg_input = scramble_with_seed(SCRAMBLE_LEN, 7)

\* C31: ApplyAlg precedence: with a non-blank alg_input the tokens are
\* applied to the cube as it is (no reset) and the seed is ignored, so the
\* two text fields stay as typed; otherwise, with a seed_input that parses
\* as an unsigned integer, the seeded scramble is applied; otherwise the
\* cube is unchanged and the status says there is nothing to apply.
C31_Precedence ==
    [][msg'.type = "ApplyAlg" =>
        LET alg_text == trim(alg_input)
            seed == parse_u64(trim(seed_input))
            toks == split_whitespace(alg_input)
        IN  IF alg_text # <<>>
            THEN /\ cube' = TurnAll(cube, SubSeq(toks, 1, FirstBad(toks) - 1))
                 /\ alg_input' = alg_input
                 /\ seed_input' = seed_input
                 /\ status'[1] \in {"Applied algorithm.", "Algorithm error: "}
            ELSE IF seed.ok
            THEN /\ cube' = Scrambled(seed.val)
                 /\ alg_input' = scramble_with_seed(SCRAMBLE_LEN, seed.val)
                 /\ status' = <<"Applied seed = ", ToString(seed.val), ": ">>
                                  \o alg_input'
            ELSE /\ cube' = cube
                 /\ alg_input' = alg_input
                 /\ status' = <<"Nothing to apply. Enter an algorithm or a seed.">>]_vars

\* an algorithm and a seed are both typed and the cube is turned by R: the
\* algorithm is applied to that cube, not the scramble and not from solved
C31_Witness ==
    /\ msg.type = "ApplyAlg"
    /\ alg_input = <<" ", "F", "2", " ", " ", "B", "'", " ">>
    /\ seed_input = <<" ", "7", " ">>
    /\ status = <<"Applied algorithm.">>
    /\ start = r_cw(CubeDefault)
    /\ cube = b_ccw(f_180(r_cw(CubeDefault)))
    /\ cube # b_ccw(f_180(CubeDefault))
    /\ cube # Scrambled(7)

\* the scrambles the generators can hand out: random_scramble with every
\* sequence of up to MaxDraws draws, and scramble_with_seed with the lengths
\* 0, 1 and SCRAMBLE_LEN; each with the len it was asked for
Emitted ==
    UNION {{<<len, s>> : s \in random_scramble(len)} : len \in 0..MaxDraws}
        \cup UNION {{<<len, scramble_with_seed(len, seed)>> : len \in {0, 1, SCRAMBLE_LEN}}
                        : seed \in RngSeeds \cup {0}}

\* every entry of MOVES and every button token is accepted; an emitted
\* scramble has len tokens and apply_alg accepts it
EmittedAccepted ==
    /\ \A i \in 1..Len(MOVES) : apply_token(CubeDefault, MOVES[i]).ok
    /\ \A tok \in MoveButtons : apply_token(CubeDefault, tok).ok
    /\ \A e \in Emitted :
           /\ Len(split_whitespace(e[2])) = e[1]
           /\ apply_alg(CubeDefault, e[2]).ok

\* C32: emitted tokens are always accepted: every token of MOVES (so every
\* token scramble_with_seed and random_scramble can draw) and every token of
\* a move button is accepted by apply_token; a scramble of length len has
\* exactly len tokens and apply_alg returns Ok on it; so a seeded scramble
\* stores its 15 tokens and never reports "Seeded scramble error", and a
\* button's Msg::Move never reports an unknown move.
C32_EmittedAccepted ==
    /\ EmittedAccepted
    /\ status # <<>> => status[1] # "Seeded scramble error: "
    /\ (msg.type = "Scramble" \/ (msg.type = "ApplySeed" /\ parse_u64(trim(seed_input)).ok)) =>
           /\ status[1] = "Applied seed = "
           /\ Len(split_whitespace(alg_input)) = SCRAMBLE_LEN
           /\ \A tok \in {split_whitespace(alg_input)[i] : i \in 1..SCRAMBLE_LEN} :
                  apply_token(cube, tok).ok
    /\ (msg.type = "Move" /\ msg.arg \in MoveButtons) => status = <<"Did ">> \o msg.arg

\* Scramble with the seed 42 on a cube turned by R
C32_Witness ==
    /\ msg = MsgOf("Scramble", 42)
    /\ start = r_cw(CubeDefault)
    /\ status[1] = "Applied seed = "
    /\ alg_input = scramble_with_seed(SCRAMBLE_LEN, 42)
    /\ Len(split_whitespace(alg_input)) = 15

\* the face on the other side of the cube
Opposite(face) ==
    CASE face = "U" -> "D" [] face = "D" -> "U" [] face = "F" -> "B"
      [] face = "B" -> "F" [] face = "L" -> "R" [] face = "R" -> "L"

\* the faces face_visible reports at an orientation
Visible(rz, rx, ry) == {face \in Faces : face_visible(face, rz, rx, ry)}

====
